---- MODULE Spec2Model ----
(***************************************************************************)
(* Document summarization backend: the chunker and the summarization       *)
(* orchestrator (summarize.py), the relevance highlighter (highlight.py)   *)
(* and the /api/summarize handler (app.py).                                *)
(*                                                                         *)
(* A Python string is a sequence of one-character strings.  Python offsets *)
(* are 0-based: Python's text[i] is text[i + 1] here, and the slice        *)
(* text[a:b] is Slice(text, a, b).                                         *)
(***************************************************************************)
EXTENDS Integers, Sequences, FiniteSets, TLC

\* ------------------------------------------------------------------ bounds

\* Longest text given to the chunker when it is explored exhaustively.
MaxTextLen == 5
\* Largest chunk budget (approx_chars) explored exhaustively.
MaxBudget == 3
\* Number of summarize requests in flight at once.
NumRequests == 2

\* ------------------------------------------------------ program constants

\* generate_summary returns texts shorter than this as they are.
ShortTextLen == 150
\* generate_summary summarizes texts shorter than this in one call.
DirectTextLen == 2000
\* Chunks with fewer words than this are not summarized.
MinChunkWords == 10
\* Cap of max_length for a chunk's summary.
ChunkMaxLength == 100
\* Cap of min_length for a chunk's summary.
ChunkMinLength == 20
\* Characters of a chunk kept when its summarization fails.
ChunkFallbackLen == 100
\* Default of max_chunk_chars.
DefaultChunkChars == 800
\* max_chunk_chars as the request handler passes it.
HandlerChunkChars == 1200

\* ------------------------------------------------------- Python strings

\* The characters texts are made of: letters, the full stop and whitespace.
Alphabet == {"a", ".", " ", "\n"}

\* What str.strip() and str.split() treat as whitespace.
Whitespace == {" ", "\n"}

Min(a, b) == IF a <= b THEN a ELSE b

\* text[a:b] for 0 <= a, with b clipped to len(text) as Python does.
Slice(s, a, b) == SubSeq(s, a + 1, Min(b, Len(s)))

\* s.strip(): s without its leading and trailing whitespace.
Strip(s) ==
    LET keep == {i \in 1..Len(s) : s[i] \notin Whitespace}
    IN  IF keep = {} THEN << >>
        ELSE LET lo == CHOOSE i \in keep : \A j \in 1..(i - 1) : j \notin keep
                 hi == CHOOSE i \in keep : \A j \in (i + 1)..Len(s) : j \notin keep
             IN  SubSeq(s, lo, hi)

\* Whether sub occurs in s at 0-based offset i.
OccursAt(s, sub, i) ==
    /\ i + Len(sub) <= Len(s)
    /\ \A d \in 1..Len(sub) : s[i + d] = sub[d]

\* s.rfind(sub, a, b): the highest offset i with a <= i and i + len(sub) <= b
\* at which sub occurs, or -1.
RFind(s, sub, a, b) ==
    LET hit(i) == i + Len(sub) <= b /\ OccursAt(s, sub, i)
        cand   == a..(b - Len(sub))
    IN  IF \E i \in cand : hit(i)
        THEN CHOOSE i \in cand : hit(i) /\ \A j \in (i + 1)..(b - Len(sub)) : ~hit(j)
        ELSE -1

\* len(s.split()): the number of maximal runs of non-whitespace characters.
WordCount(s) ==
    Cardinality({i \in 1..Len(s) :
        /\ s[i] \notin Whitespace
        /\ (i = 1 \/ s[i - 1] \in Whitespace)})

\* The sequences over S of length at most n.
SeqsUpTo(S, n) == UNION {[1..m -> S] : m \in 0..n}

\* ---------------------------------------------------------------- state

Requests == 1..NumRequests

VARIABLES
    c_text,         \* chunk_text_by_tokens: text
    approx_chars,   \* chunk_text_by_tokens: approx_chars
    start,          \* chunk_text_by_tokens: start
    chunks,         \* chunk_text_by_tokens: chunks
    slices,         \* the (start, end) of every slice text[start:end] taken, in order
    c_pc            \* "loop" while the while loop runs, "done" after the return

\* One generate_summary frame per request.
VARIABLES
    g_text,             \* text
    max_chunk_chars,    \* max_chunk_chars
    summary_max_length, \* summary_max_length
    summary_min_length, \* summary_min_length
    g_chunks,           \* chunks
    summaries,          \* summaries
    g_i,                \* the for loop's position in chunks (1-based)
    calls,              \* the summarizer invocations made, in order, with their outcome
    g_result,           \* the value returned
    g_pc                \* "off", "entry", "direct_call", "loop", "chunk_call", "returned"

\* The top_k_sentences call under study.
VARIABLES
    original_text,  \* original_text
    h_k,            \* k, as passed
    tokenizer,      \* what the NLTK tokenizer does with the text
    sentences,      \* sentences
    h_path,         \* the return statement taken: "empty", "all", "ranked", "fallback"
    h_result,       \* the value returned
    h_pc            \* "off", "entry", "returned"

\* One summarize_document activation per request.
VARIABLES
    a_request,      \* the request: whether it has a file part, the file name, the length
    a_text,         \* text
    a_response,     \* the response sent
    a_pc            \* "off", "received", "summarizing", "responded"

chunkVars == <<c_text, approx_chars, start, chunks, slices, c_pc>>

sumVars == <<g_text, max_chunk_chars, summary_max_length, summary_min_length,
             g_chunks, summaries, g_i, calls, g_result, g_pc>>

hlVars == <<original_text, h_k, tokenizer, sentences, h_path, h_result, h_pc>>

appVars == <<a_request, a_text, a_response, a_pc>>

vars == <<chunkVars, sumVars, hlVars, appVars>>

\* ------------------------------------------------------------- chunker

\* A variant of SplitEnd that adds one to split_at even when no boundary was
\* found (split_at = -1).
SplitEndNoHardCut(text, st, budget) ==
    LET n    == Len(text)
        end0 == Min(n, st + budget)
        nl   == RFind(text, <<"\n">>, st, end0)
        dot  == IF nl = -1 THEN RFind(text, <<".", " ">>, st, end0) ELSE nl
        sp   == IF dot = -1 THEN RFind(text, <<" ">>, st, end0) ELSE dot
    IN  IF end0 < n THEN sp + 1 ELSE end0

\* Lines 20-36: the end of the slice that starts at `st`.
SplitEnd(text, st, budget) ==
    LET n    == Len(text)
        end0 == Min(n, st + budget)
        nl   == RFind(text, <<"\n">>, st, end0)
        dot  == IF nl = -1 THEN RFind(text, <<".", " ">>, st, end0) ELSE nl
        sp   == IF dot = -1 THEN RFind(text, <<" ">>, st, end0) ELSE dot
    IN  IF end0 < n
        THEN IF sp = -1 THEN end0 ELSE sp + 1
        ELSE end0

\* Lines 42-44: start = end; if start == end: start += 1.  The test is made
\* after the assignment, so it always succeeds.
NextStart(st, end) == end + 1

\* A variant of AppendChunk that appends the slice as it is.
AppendChunkNoStrip(cs, text, st, end) == Append(cs, Slice(text, st, end))

\* Lines 38-40: the slice is stripped and kept only if something is left.
AppendChunk(cs, text, st, end) ==
    LET chunk == Strip(Slice(text, st, end))
    IN  IF chunk # << >> THEN Append(cs, chunk) ELSE cs

\* One iteration of the while loop (lines 19-44).
ChunkStep ==
    /\ c_pc = "loop"
    /\ start < Len(c_text)
    /\ LET end == SplitEnd(c_text, start, approx_chars)
       IN  /\ chunks' = AppendChunk(chunks, c_text, start, end)
           /\ slices' = Append(slices, <<start, end>>)
           /\ start' = NextStart(start, end)
    /\ UNCHANGED <<c_text, approx_chars, c_pc, sumVars, hlVars, appVars>>

\* The loop condition fails and the chunks are returned (lines 19, 46).
ChunkReturn ==
    /\ c_pc = "loop"
    /\ start >= Len(c_text)
    /\ c_pc' = "done"
    /\ UNCHANGED <<c_text, approx_chars, start, chunks, slices, sumVars, hlVars, appVars>>

\* The whole function, as generate_summary calls it.
RECURSIVE ChunkLoop(_, _, _, _)
ChunkLoop(text, budget, st, cs) ==
    IF st < Len(text)
    THEN LET end == SplitEnd(text, st, budget)
         IN  ChunkLoop(text, budget, NextStart(st, end), AppendChunk(cs, text, st, end))
    ELSE cs

chunk_text_by_tokens(text, budget) == ChunkLoop(text, budget, 0, << >>)

\* ----------------------------------------------------------- long texts

Letters == <<"a", "b", "c">>

\* A text of n characters: words of `word` letters separated by `sep`, and a
\* sentence end ". " every `period` characters (never, if period = 0).
GenText(n, word, sep, period) ==
    [i \in 1..n |->
        IF period > 0 /\ i % period = period - 1 THEN "."
        ELSE IF period > 0 /\ i % period = 0 THEN " "
        ELSE IF i % (word + 1) = 0 THEN sep
        ELSE Letters[(i % 3) + 1]]

\* A text of n spaces.
Blank(n) == [i \in 1..n |-> " "]

\* The lengths of the texts given to generate_summary: around both thresholds,
\* and long enough for several chunks.
SumTextLens == {0, 100, 149, 150, 1500, 1999, 2000, 2430}

\* A text of n characters: m characters of four-letter words, then spaces.
Padded(n, m) == [i \in 1..n |-> IF i <= m THEN GenText(m, 4, " ", 0)[i] ELSE " "]

SumTexts ==
    {GenText(n, word, sep, period) :
        n \in SumTextLens, word \in {4, 250}, sep \in {" ", "\n"}, period \in {0, 405}}
    \cup {Blank(n) : n \in {149, 2000}}
    \cup {Padded(2000, 699)}

\* The (summary_max_length, summary_min_length) pairs given to
\* generate_summary: its defaults and the three the handler uses.
SumLengths ==
    {[max_len |-> 150, min_len |-> 40],
     [max_len |-> 80, min_len |-> 30],
     [max_len |-> 180, min_len |-> 60],
     [max_len |-> 300, min_len |-> 120]}

\* The characters of the texts given to top_k_sentences.
HlAlphabet == {"a", ".", " "}
\* Longest text given to top_k_sentences when it is explored exhaustively.
MaxHlLen == 4
\* Largest k given to top_k_sentences.
MaxK == 2

\* A text of 2100 characters whose only non-blank character is the one the
\* chunker steps over after its first slice of 1200.
SteppedOver == [i \in 1..2100 |-> IF i = 1201 THEN "x" ELSE " "]

\* The texts extracted from uploaded files: none, blank, short, medium and
\* long ones, of one sentence and of six.
AppTexts ==
    {<< >>, Blank(3), GenText(100, 4, " ", 0), GenText(1500, 4, " ", 0),
     GenText(1500, 4, " ", 250), GenText(2430, 4, "\n", 0), SteppedOver}

Filenames ==
    {<< >>, <<"a", ".", "t", "x", "t">>, <<"a", ".", "P", "D", "F">>,
     <<"a", ".", "e", "x", "e">>, <<"t", "x", "t">>}

\* The summarize requests: with or without a file part, the file readable or
\* not, the length one of the three, another word, or the default.
AppRequests ==
    {[has_file |-> hf, filename |-> fn, length |-> len, readable |-> rd,
      text |-> IF rd THEN tx ELSE << >>] :
        hf \in BOOLEAN, fn \in Filenames, len \in {"short", "medium", "long", "huge"},
        rd \in BOOLEAN, tx \in AppTexts}

\* The requests handled at once: one without a file part, and valid ones of
\* a short, a medium and a long text.
ConcRequests ==
    {[has_file |-> FALSE, filename |-> << >>, length |-> "short", readable |-> FALSE,
      text |-> << >>]}
    \cup
    {[has_file |-> TRUE, filename |-> <<"a", ".", "t", "x", "t">>, length |-> "short",
      readable |-> TRUE, text |-> tx] :
        tx \in {GenText(100, 4, " ", 0), GenText(1500, 4, " ", 0),
                GenText(2430, 4, "\n", 0)}}

\* ---------------------------------------------------- generate_summary

\* What the summarization capability may return when it does not raise.
Outputs == {<<"S">>, <<"S", " ", "T">>}

\* "No content to summarize."
NoContent ==
    <<"N", "o", " ", "c", "o", "n", "t", "e", "n", "t", " ", "t", "o", " ",
      "s", "u", "m", "m", "a", "r", "i", "z", "e", ".">>

\* " ".join(parts)
RECURSIVE Join(_)
Join(parts) ==
    IF Len(parts) = 0 THEN << >>
    ELSE IF Len(parts) = 1 THEN parts[1]
    ELSE parts[1] \o <<" ">> \o Join(Tail(parts))

\* One invocation of the summarizer, as it is made.
Invocation(input, max_length, min_length) ==
    [input |-> input, max_length |-> max_length, min_length |-> min_length,
     status |-> "pending", output |-> << >>]

\* The last invocation of a log, closed with its outcome.
Closed(log, status, output) ==
    [log EXCEPT ![Len(log)].status = status, ![Len(log)].output = output]

\* Line 53.
IsVeryShort(text) == Len(text) < ShortTextLen

\* Line 57.
IsMedium(text) == Len(text) < DirectTextLen

\* A variant of Truncated that returns the text whole.
Untruncated(text, max_length) == text

\* Lines 54 and 68: text[:summary_max_length].
Truncated(text, max_length) == Slice(text, 0, max_length)

\* A variant of ChunkFallback that keeps the chunk whole.
ChunkFallbackWhole(chunk) == chunk

\* Line 95: chunk[:100].
ChunkFallback(chunk) == Slice(chunk, 0, ChunkFallbackLen)

\* Line 81.
IsShortChunk(chunk) == WordCount(chunk) < MinChunkWords

\* Lines 98-103.
Combined(parts, max_length) ==
    IF Len(parts) = 1 THEN parts[1] ELSE Slice(Join(parts), 0, max_length)

InSummarizer(r) == g_pc[r] \in {"direct_call", "chunk_call"}

\* Lines 53-54.
GsReturnShort(r) ==
    /\ g_pc[r] = "entry"
    /\ IsVeryShort(g_text[r])
    /\ g_result' = [g_result EXCEPT ![r] = Truncated(g_text[r], summary_max_length[r])]
    /\ g_pc' = [g_pc EXCEPT ![r] = "returned"]
    /\ UNCHANGED <<g_text, max_chunk_chars, summary_max_length, summary_min_length,
                   g_chunks, summaries, g_i, calls,
                   chunkVars, hlVars, appVars>>

\* Lines 57-64: the summarizer is entered with the whole text.
GsDirectCall(r) ==
    /\ g_pc[r] = "entry"
    /\ ~IsVeryShort(g_text[r])
    /\ IsMedium(g_text[r])
    /\ calls' = [calls EXCEPT ![r] = Append(@,
                    Invocation(g_text[r], summary_max_length[r], summary_min_length[r]))]
    /\ g_pc' = [g_pc EXCEPT ![r] = "direct_call"]
    /\ UNCHANGED <<g_text, max_chunk_chars, summary_max_length, summary_min_length,
                   g_chunks, summaries, g_i, g_result,
                   chunkVars, hlVars, appVars>>

\* Line 65: the summarizer returns.
GsDirectOk(r) ==
    /\ g_pc[r] = "direct_call"
    /\ \E out \in Outputs :
         /\ calls' = [calls EXCEPT ![r] = Closed(@, "ok", out)]
         /\ g_result' = [g_result EXCEPT ![r] = out]
    /\ g_pc' = [g_pc EXCEPT ![r] = "returned"]
    /\ UNCHANGED <<g_text, max_chunk_chars, summary_max_length, summary_min_length,
                   g_chunks, summaries, g_i,
                   chunkVars, hlVars, appVars>>

\* Lines 66-68: the summarizer raises.
GsDirectFail(r) ==
    /\ g_pc[r] = "direct_call"
    /\ calls' = [calls EXCEPT ![r] = Closed(@, "raised", << >>)]
    /\ g_result' = [g_result EXCEPT ![r] = Truncated(g_text[r], summary_max_length[r])]
    /\ g_pc' = [g_pc EXCEPT ![r] = "returned"]
    /\ UNCHANGED <<g_text, max_chunk_chars, summary_max_length, summary_min_length,
                   g_chunks, summaries, g_i,
                   chunkVars, hlVars, appVars>>

\* Lines 71-76: the text is chunked; without chunks the sentinel is returned.
GsSplit(r) ==
    /\ g_pc[r] = "entry"
    /\ ~IsVeryShort(g_text[r])
    /\ ~IsMedium(g_text[r])
    /\ LET cs == chunk_text_by_tokens(g_text[r], max_chunk_chars[r])
       IN  /\ g_chunks' = [g_chunks EXCEPT ![r] = cs]
           /\ g_result' = [g_result EXCEPT ![r] = IF cs = << >> THEN NoContent ELSE @]
           /\ g_pc' = [g_pc EXCEPT ![r] = IF cs = << >> THEN "returned" ELSE "loop"]
    /\ g_i' = [g_i EXCEPT ![r] = 1]
    /\ UNCHANGED <<g_text, max_chunk_chars, summary_max_length, summary_min_length,
                   summaries, calls,
                   chunkVars, hlVars, appVars>>

\* Lines 81-83: a chunk of fewer than 10 words is its own partial summary.
GsPassThrough(r) ==
    /\ g_pc[r] = "loop"
    /\ g_i[r] <= Len(g_chunks[r])
    /\ IsShortChunk(g_chunks[r][g_i[r]])
    /\ summaries' = [summaries EXCEPT ![r] = Append(@, g_chunks[r][g_i[r]])]
    /\ g_i' = [g_i EXCEPT ![r] = @ + 1]
    /\ UNCHANGED <<g_text, max_chunk_chars, summary_max_length, summary_min_length,
                   g_chunks, calls, g_result, g_pc,
                   chunkVars, hlVars, appVars>>

\* Lines 85-90: the summarizer is entered with the chunk.
GsChunkCall(r) ==
    /\ g_pc[r] = "loop"
    /\ g_i[r] <= Len(g_chunks[r])
    /\ ~IsShortChunk(g_chunks[r][g_i[r]])
    /\ calls' = [calls EXCEPT ![r] = Append(@,
                    Invocation(g_chunks[r][g_i[r]],
                               Min(ChunkMaxLength, summary_max_length[r]),
                               Min(ChunkMinLength, summary_min_length[r])))]
    /\ g_pc' = [g_pc EXCEPT ![r] = "chunk_call"]
    /\ UNCHANGED <<g_text, max_chunk_chars, summary_max_length, summary_min_length,
                   g_chunks, summaries, g_i, g_result,
                   chunkVars, hlVars, appVars>>

\* Line 91: the summarizer returns.
GsChunkOk(r) ==
    /\ g_pc[r] = "chunk_call"
    /\ \E out \in Outputs :
         /\ calls' = [calls EXCEPT ![r] = Closed(@, "ok", out)]
         /\ summaries' = [summaries EXCEPT ![r] = Append(@, out)]
    /\ g_i' = [g_i EXCEPT ![r] = @ + 1]
    /\ g_pc' = [g_pc EXCEPT ![r] = "loop"]
    /\ UNCHANGED <<g_text, max_chunk_chars, summary_max_length, summary_min_length,
                   g_chunks, g_result,
                   chunkVars, hlVars, appVars>>

\* Lines 92-95: the summarizer raises.
GsChunkFail(r) ==
    /\ g_pc[r] = "chunk_call"
    /\ calls' = [calls EXCEPT ![r] = Closed(@, "raised", << >>)]
    /\ summaries' = [summaries EXCEPT ![r] =
                        Append(@, ChunkFallback(g_chunks[r][g_i[r]]))]
    /\ g_i' = [g_i EXCEPT ![r] = @ + 1]
    /\ g_pc' = [g_pc EXCEPT ![r] = "loop"]
    /\ UNCHANGED <<g_text, max_chunk_chars, summary_max_length, summary_min_length,
                   g_chunks, g_result,
                   chunkVars, hlVars, appVars>>

\* Lines 98-103: the loop is over and the partial summaries are combined.
GsCombine(r) ==
    /\ g_pc[r] = "loop"
    /\ g_i[r] > Len(g_chunks[r])
    /\ g_result' = [g_result EXCEPT ![r] = Combined(summaries[r], summary_max_length[r])]
    /\ g_pc' = [g_pc EXCEPT ![r] = "returned"]
    /\ UNCHANGED <<g_text, max_chunk_chars, summary_max_length, summary_min_length,
                   g_chunks, summaries, g_i, calls,
                   chunkVars, hlVars, appVars>>

\* One step of generate_summary for request r.
generate_summary(r) ==
    \/ GsReturnShort(r)
    \/ GsDirectCall(r)
    \/ GsDirectOk(r)
    \/ GsDirectFail(r)
    \/ GsSplit(r)
    \/ GsPassThrough(r)
    \/ GsChunkCall(r)
    \/ GsChunkOk(r)
    \/ GsChunkFail(r)
    \/ GsCombine(r)

\* ------------------------------------------------------ top_k_sentences

\* The characters after which the regex splits: [.!?]
SentenceEnd == {".", "!", "?"}

\* The elements of a set of integers, in increasing order.
Sorted(S) ==
    [j \in 1..Cardinality(S) |->
        CHOOSE x \in S : Cardinality({y \in S : y < x}) = j - 1]

\* re.split(r'(?<=[.!?])\s+', text), without the empty strings it may hold
\* at either end of the text.  A match of (?<=[.!?])\s+ is a whole run of
\* whitespace that starts right after one of . ! ?
RegexSplit(text) ==
    LET n      == Len(text)
        after  == {p \in 2..n : text[p] \in Whitespace /\ text[p - 1] \in SentenceEnd}
        sep    == {i \in 1..n :
                     /\ text[i] \in Whitespace
                     /\ \E p \in after :
                          p <= i /\ \A q \in p..i : text[q] \in Whitespace}
        starts == Sorted({i \in 1..n : i \notin sep /\ (i = 1 \/ (i - 1) \in sep)})
        ends   == Sorted({i \in 1..n : i \notin sep /\ (i = n \/ (i + 1) \in sep)})
    IN  [j \in 1..Len(starts) |-> SubSeq(text, starts[j], ends[j])]

\* What sent_tokenize returns when it cuts the text after the positions of
\* `cuts`: the pieces between the cuts, in order.
Tokenized(text, cuts) ==
    LET n      == Len(text)
        bounds == Sorted((cuts \cap 1..(n - 1)) \cup {0, n})
    IN  IF n = 0 THEN << >>
        ELSE [j \in 1..(Len(bounds) - 1) |-> Slice(text, bounds[j], bounds[j + 1])]

\* [s.strip() for s in sentences if s.strip()]
RECURSIVE StripAll(_)
StripAll(raw) ==
    IF raw = << >> THEN << >>
    ELSE LET s == Strip(Head(raw))
         IN  (IF s = << >> THEN << >> ELSE <<s>>) \o StripAll(Tail(raw))

\* Lines 7-25.  tok.available: whether NLTK's tokenizer can be used; if not,
\* the regex splits the text.
split_into_sentences(text, tok) ==
    IF tok.available
    THEN StripAll(Tokenized(text, tok.cuts))
    ELSE StripAll(RegexSplit(text))

\* Scores are fractions.
Score(num, den) == [num |-> num, den |-> den]

ScoreLeq(a, b) == a.num * b.den <= b.num * a.den

\* Largest similarity, in units of 1/MaxSim.
MaxSim == 2

\* Lines 53-57: the cosine similarity sims[i] / MaxSim of sentence i (0-based)
\* times its position weight, which np.linspace(1.0, 0.7, n) takes from 1.0
\* down to 0.7 in n - 1 equal steps.
CombinedScores(sims, n) ==
    [i \in 0..(n - 1) |->
        IF n = 1 THEN Score(sims[i], MaxSim)
        ELSE Score(sims[i] * (10 * (n - 1) - 3 * i), MaxSim * 10 * (n - 1))]

\* The orders of a set: every sequence that holds each element once.
RECURSIVE Orders(_)
Orders(S) ==
    IF S = {} THEN {<< >>}
    ELSE UNION {{<<x>> \o p : p \in Orders(S \ {x})} : x \in S}

\* np.argsort(scores): the indices in an order of non-decreasing score.  The
\* sort is not stable, so equal scores may come in any order.
Argsorts(scores, n) ==
    {p \in Orders(0..(n - 1)) :
        \A i \in 1..(n - 1) : ScoreLeq(scores[p[i]], scores[p[i + 1]])}

Reverse(s) == [j \in 1..Len(s) |-> s[Len(s) + 1 - j]]

\* order[-k:][::-1] for 0 <= k <= len(order); order[-0:] is all of order.
TopIndices(order, k) ==
    Reverse(IF k = 0 THEN order ELSE SubSeq(order, Len(order) - k + 1, Len(order)))

Highlight(index, sentence, score) ==
    [index |-> index, sentence |-> sentence, score |-> score]

\* Lines 38-39.
AllHighlights(sents) ==
    [j \in 1..Len(sents) |-> Highlight(j - 1, sents[j], Score(1, 1))]

\* Lines 60-67.
RankedHighlights(sents, k, scores, order) ==
    LET k2  == Min(k, Len(sents))
        top == TopIndices(order, k2)
    IN  [j \in 1..Len(top) |-> Highlight(top[j], sents[top[j] + 1], scores[top[j]])]

\* A variant of FallbackHighlights that returns every sentence.
FallbackHighlightsAll(sents, k) ==
    [j \in 1..Len(sents) |-> Highlight(j - 1, sents[j], Score(1, 2))]

\* Lines 72-73.
FallbackHighlights(sents, k) ==
    [j \in 1..Min(k, Len(sents)) |-> Highlight(j - 1, sents[j], Score(1, 2))]

\* What the vectorizer and the scoring of lines 43-61 do in one call: raise,
\* or give sentence i the similarity sims[i] / MaxSim and sort the combined
\* scores into `order`.
Raising == [raises |-> TRUE, sims |-> << >>, order |-> << >>]

Scoring(sims, order) == [raises |-> FALSE, sims |-> sims, order |-> order]

\* Every behaviour of the vectorizer and the scoring on n sentences.
Vectorizers(n) ==
    {Raising} \cup
    UNION {{Scoring(sims, order) : order \in Argsorts(CombinedScores(sims, n), n)} :
           sims \in [0..(n - 1) -> 0..MaxSim]}

\* Lines 27-73: top_k_sentences(original_text, summary_text, k), with the
\* return statement taken.  The summary only reaches the vectorizer, which
\* `vec` stands for.
top_k_sentences(text, k, tok, vec) ==
    LET sents == split_into_sentences(text, tok)
        n     == Len(sents)
    IN  IF n = 0 THEN [path |-> "empty", result |-> << >>]
        ELSE IF n <= k THEN [path |-> "all", result |-> AllHighlights(sents)]
        ELSE IF vec.raises
             THEN [path |-> "fallback", result |-> FallbackHighlights(sents, k)]
        ELSE [path |-> "ranked",
              result |-> RankedHighlights(sents, k, CombinedScores(vec.sims, n),
                                          vec.order)]

SentenceCount == Len(split_into_sentences(original_text, tokenizer))

\* Lines 33-34: no sentence.
HlEmpty ==
    /\ h_pc = "entry"
    /\ SentenceCount = 0
    /\ LET o == top_k_sentences(original_text, h_k, tokenizer, Raising)
       IN  h_result' = o.result /\ h_path' = o.path
    /\ sentences' = split_into_sentences(original_text, tokenizer)
    /\ h_pc' = "returned"
    /\ UNCHANGED <<original_text, h_k, tokenizer, chunkVars, sumVars, appVars>>

\* Lines 37-39: no more than k sentences.
HlAll ==
    /\ h_pc = "entry"
    /\ SentenceCount > 0
    /\ SentenceCount <= h_k
    /\ LET o == top_k_sentences(original_text, h_k, tokenizer, Raising)
       IN  h_result' = o.result /\ h_path' = o.path
    /\ sentences' = split_into_sentences(original_text, tokenizer)
    /\ h_pc' = "returned"
    /\ UNCHANGED <<original_text, h_k, tokenizer, chunkVars, sumVars, appVars>>

\* Lines 41-67: the sentences are scored and the best k returned.
HlRanked ==
    /\ h_pc = "entry"
    /\ SentenceCount > h_k
    /\ \E vec \in Vectorizers(SentenceCount) \ {Raising} :
         LET o == top_k_sentences(original_text, h_k, tokenizer, vec)
         IN  h_result' = o.result /\ h_path' = o.path
    /\ sentences' = split_into_sentences(original_text, tokenizer)
    /\ h_pc' = "returned"
    /\ UNCHANGED <<original_text, h_k, tokenizer, chunkVars, sumVars, appVars>>

\* Lines 69-73: the vectorizer or the scoring raised.
HlFallback ==
    /\ h_pc = "entry"
    /\ SentenceCount > h_k
    /\ LET o == top_k_sentences(original_text, h_k, tokenizer, Raising)
       IN  h_result' = o.result /\ h_path' = o.path
    /\ sentences' = split_into_sentences(original_text, tokenizer)
    /\ h_pc' = "returned"
    /\ UNCHANGED <<original_text, h_k, tokenizer, chunkVars, sumVars, appVars>>

\* --------------------------------------------------- summarize_document

\* k, as the handler passes it to top_k_sentences.
HandlerK == 5
\* Characters of the text sent back as original_excerpt.
ExcerptLen == 2000

\* ALLOWED_EXTENSIONS
ALLOWED_EXTENSIONS == {<<"p", "d", "f">>, <<"t", "x", "t">>}

\* SUPPORTED_LENGTHS
SUPPORTED_LENGTHS == {"short", "medium", "long"}

\* str.lower() on the characters file names are made of.
LowerChar(c) ==
    CASE c = "P" -> "p"
      [] c = "D" -> "d"
      [] c = "F" -> "f"
      [] OTHER -> c

Lower(s) == [i \in 1..Len(s) |-> LowerChar(s[i])]

\* Lines 30-33: the part after the last dot, lowered, is an allowed extension.
allowed_file(filename) ==
    /\ \E i \in 1..Len(filename) : filename[i] = "."
    /\ LET dot == CHOOSE i \in 1..Len(filename) :
                    /\ filename[i] = "."
                    /\ \A j \in (i + 1)..Len(filename) : filename[j] # "."
       IN  Lower(SubSeq(filename, dot + 1, Len(filename))) \in ALLOWED_EXTENSIONS

\* Lines 35-42.
get_length_params(length) ==
    CASE length = "short" -> [max_len |-> 80, min_len |-> 30]
      [] length = "long" -> [max_len |-> 300, min_len |-> 120]
      [] OTHER -> [max_len |-> 180, min_len |-> 60]

\* Lines 85-87: the length asked for, or "medium".
SummaryType(length) == IF length \in SUPPORTED_LENGTHS THEN length ELSE "medium"

ErrorResponse(status, error) ==
    [status |-> status, error |-> error, summary |-> << >>, highlights |-> << >>,
     original_excerpt |-> << >>, original_length |-> 0, summary_length |-> 0,
     highlight_count |-> 0, summary_type |-> ""]

\* Lines 141-155.
SuccessResponse(text, summary, highlights, length) ==
    [status |-> 200, error |-> "", summary |-> summary, highlights |-> highlights,
     original_excerpt |-> Slice(text, 0, ExcerptLen), original_length |-> Len(text),
     summary_length |-> Len(summary), highlight_count |-> Len(highlights),
     summary_type |-> length]

NoResponse == ErrorResponse(0, "")

\* Lines 66-112: the error a request is answered with before any summary is
\* made, or NoResponse if it passes.
Rejection(req) ==
    IF ~req.has_file THEN ErrorResponse(400, "No file provided")
    ELSE IF req.filename = << >> THEN ErrorResponse(400, "No file selected")
    ELSE IF ~allowed_file(req.filename) THEN ErrorResponse(400, "Unsupported file type")
    ELSE IF ~req.readable THEN ErrorResponse(400, "Failed to extract text from file")
    ELSE IF req.text = << >> \/ Strip(req.text) = << >>
         THEN ErrorResponse(400, "No readable text content found in the document")
    ELSE NoResponse

\* A request that passes every check of lines 66-112.
Valid(req) == Rejection(req) = NoResponse

\* Lines 64-112: the request fails a check and is answered with the error.
HandlerReject(r) ==
    /\ a_pc[r] = "received"
    /\ ~Valid(a_request[r])
    /\ a_response' = [a_response EXCEPT ![r] = Rejection(a_request[r])]
    /\ a_pc' = [a_pc EXCEPT ![r] = "responded"]
    /\ UNCHANGED <<a_request, a_text, chunkVars, sumVars, hlVars>>

\* Lines 64-124: the request passes the checks and generate_summary is called.
HandlerAccept(r) ==
    /\ a_pc[r] = "received"
    /\ Valid(a_request[r])
    /\ a_text' = [a_text EXCEPT ![r] = a_request[r].text]
    /\ a_pc' = [a_pc EXCEPT ![r] = "summarizing"]
    /\ LET params == get_length_params(SummaryType(a_request[r].length))
       IN  /\ g_text' = [g_text EXCEPT ![r] = a_request[r].text]
           /\ max_chunk_chars' = [max_chunk_chars EXCEPT ![r] = HandlerChunkChars]
           /\ summary_max_length' = [summary_max_length EXCEPT ![r] = params.max_len]
           /\ summary_min_length' = [summary_min_length EXCEPT ![r] = params.min_len]
    /\ g_pc' = [g_pc EXCEPT ![r] = "entry"]
    /\ UNCHANGED <<a_request, a_response, g_chunks, summaries, g_i, calls, g_result,
                   chunkVars, hlVars>>

\* What the NLTK tokenizer may do with a request's text: be missing, or take
\* the whole text for one sentence.
HandlerTokenizers ==
    {[available |-> FALSE, cuts |-> {}], [available |-> TRUE, cuts |-> {}]}

\* What the vectorizer and the scoring may do with the n sentences of a
\* request's text: raise; find every sentence as similar to the summary as
\* can be; or find none similar at all, with the ties sorted either way.
HandlerVectorizers(n) ==
    LET up   == [j \in 1..n |-> j - 1]
        down == [j \in 1..n |-> n - j]
    IN  {Raising,
         Scoring([i \in 0..(n - 1) |-> MaxSim], down),
         Scoring([i \in 0..(n - 1) |-> 0], up),
         Scoring([i \in 0..(n - 1) |-> 0], down)}

\* Lines 125-155: generate_summary has returned; the highlights are computed
\* and the response is sent.
HandlerRespond(r) ==
    /\ a_pc[r] = "summarizing"
    /\ g_pc[r] = "returned"
    /\ \E tok \in HandlerTokenizers :
         \E vec \in HandlerVectorizers(Len(split_into_sentences(a_text[r], tok))) :
            a_response' = [a_response EXCEPT ![r] =
                SuccessResponse(a_text[r], g_result[r],
                                top_k_sentences(a_text[r], HandlerK, tok, vec).result,
                                SummaryType(a_request[r].length))]
    /\ a_pc' = [a_pc EXCEPT ![r] = "responded"]
    /\ UNCHANGED <<a_request, a_text, chunkVars, sumVars, hlVars>>

\* A variant of HandlerRespondNoHighlights that answers with an error when
\* top_k_sentences raised.
HandlerRespondHighlightError(r) ==
    /\ a_pc[r] = "summarizing"
    /\ g_pc[r] = "returned"
    /\ a_response' = [a_response EXCEPT ![r] =
            ErrorResponse(500, "An unexpected error occurred. Please try again later.")]
    /\ a_pc' = [a_pc EXCEPT ![r] = "responded"]
    /\ UNCHANGED <<a_request, a_text, chunkVars, sumVars, hlVars>>

\* Lines 136-155: top_k_sentences raised; the response is sent without
\* highlights.
HandlerRespondNoHighlights(r) ==
    /\ a_pc[r] = "summarizing"
    /\ g_pc[r] = "returned"
    /\ a_response' = [a_response EXCEPT ![r] =
            SuccessResponse(a_text[r], g_result[r], << >>,
                            SummaryType(a_request[r].length))]
    /\ a_pc' = [a_pc EXCEPT ![r] = "responded"]
    /\ UNCHANGED <<a_request, a_text, chunkVars, sumVars, hlVars>>

\* One step of the handler for request r.
summarize_document(r) ==
    \/ HandlerReject(r)
    \/ HandlerAccept(r)
    \/ generate_summary(r)
    \/ HandlerRespond(r)
    \/ HandlerRespondNoHighlights(r)

\* ------------------------------------------------------- specifications

\* No call of chunk_text_by_tokens is being stepped through.
ChunkOff ==
    /\ c_text = << >>
    /\ approx_chars = 1
    /\ start = 0
    /\ chunks = << >>
    /\ slices = << >>
    /\ c_pc = "off"

\* The generate_summary frames on entry: request r is called with text[r] and
\* the lengths of lens[r] if r is in `active`, and has no call otherwise.
SumFrames(active, text, budget, lens) ==
    /\ g_text = [r \in Requests |-> IF r \in active THEN text[r] ELSE << >>]
    /\ max_chunk_chars = [r \in Requests |-> IF r \in active THEN budget[r] ELSE 0]
    /\ summary_max_length =
          [r \in Requests |-> IF r \in active THEN lens[r].max_len ELSE 0]
    /\ summary_min_length =
          [r \in Requests |-> IF r \in active THEN lens[r].min_len ELSE 0]
    /\ g_chunks = [r \in Requests |-> << >>]
    /\ summaries = [r \in Requests |-> << >>]
    /\ g_i = [r \in Requests |-> 0]
    /\ calls = [r \in Requests |-> << >>]
    /\ g_result = [r \in Requests |-> << >>]
    /\ g_pc = [r \in Requests |-> IF r \in active THEN "entry" ELSE "off"]

SumOff == SumFrames({}, << >>, << >>, << >>)

\* No call of top_k_sentences is under study.
HlOff ==
    /\ original_text = << >>
    /\ h_k = 0
    /\ tokenizer = [available |-> FALSE, cuts |-> {}]
    /\ sentences = << >>
    /\ h_path = "none"
    /\ h_result = << >>
    /\ h_pc = "off"

NoRequest ==
    [has_file |-> FALSE, filename |-> << >>, length |-> "", readable |-> FALSE,
     text |-> << >>]

\* The requests of `active` have arrived as reqs[r]; the others never come.
AppFrames(active, reqs) ==
    /\ a_request = [r \in Requests |-> IF r \in active THEN reqs[r] ELSE NoRequest]
    /\ a_text = [r \in Requests |-> << >>]
    /\ a_response = [r \in Requests |-> NoResponse]
    /\ a_pc = [r \in Requests |-> IF r \in active THEN "received" ELSE "off"]

AppOff == AppFrames({}, << >>)

\* chunk_text_by_tokens on every text up to MaxTextLen and every budget up to
\* MaxBudget.
ChunkInit ==
    /\ c_text \in SeqsUpTo(Alphabet, MaxTextLen)
    /\ approx_chars \in 1..MaxBudget
    /\ start = 0
    /\ chunks = << >>
    /\ slices = << >>
    /\ c_pc = "loop"
    /\ SumOff
    /\ HlOff
    /\ AppOff

ChunkNext == ChunkStep \/ ChunkReturn

SpecChunk == ChunkInit /\ [][ChunkNext]_vars

\* One call of generate_summary, as request 1, on the texts of SumTexts.
SumInit ==
    /\ ChunkOff
    /\ \E text \in SumTexts :
       \E budget \in {DefaultChunkChars, HandlerChunkChars} :
       \E lens \in SumLengths :
          SumFrames({1}, <<text>>, <<budget>>, <<lens>>)
    /\ HlOff
    /\ AppOff

SumNext == \E r \in Requests : generate_summary(r)

SpecSum == SumInit /\ [][SumNext]_vars

\* One call of top_k_sentences on every text up to MaxHlLen, every k up to
\* MaxK and every way the tokenizer may cut the text.
HlInit ==
    /\ ChunkOff
    /\ SumOff
    /\ original_text \in SeqsUpTo(HlAlphabet, MaxHlLen)
    /\ h_k \in 0..MaxK
    /\ tokenizer \in
          {[available |-> FALSE, cuts |-> {}]} \cup
          {[available |-> TRUE, cuts |-> c] : c \in SUBSET (1..(MaxHlLen - 1))}
    /\ tokenizer.cuts \subseteq 1..(Len(original_text) - 1)
    /\ sentences = << >>
    /\ h_path = "none"
    /\ h_result = << >>
    /\ h_pc = "entry"
    /\ AppOff

HlNext == HlEmpty \/ HlAll \/ HlRanked \/ HlFallback

SpecHl == HlInit /\ [][HlNext]_vars

\* One summarize request, of any kind.
AppInit ==
    /\ ChunkOff
    /\ SumOff
    /\ HlOff
    /\ \E req \in AppRequests : AppFrames({1}, <<req>>)

AppNext == \E r \in Requests : summarize_document(r)

SpecApp == AppInit /\ [][AppNext]_vars

\* NumRequests valid summarize requests handled at once, one thread each.
ConcInit ==
    /\ ChunkOff
    /\ SumOff
    /\ HlOff
    /\ \E reqs \in [Requests -> ConcRequests] : AppFrames(Requests, reqs)

SpecConc == ConcInit /\ [][AppNext]_vars

\* ------------------------------------------------------ chunker: claims

NoBoundary(text) == \A i \in 1..Len(text) : text[i] \notin {"\n", " "}

\* C1: chunk_text_by_tokens loses no content: the slices it takes are
\* consecutive (the first starts at 0, each next one starts where the
\* previous one ended, the last ends at len(text)), so that every
\* non-whitespace character of the text lies in exactly one chunk.
C1_NoContentLost ==
    c_pc = "done" =>
        /\ \A j \in 1..Len(slices) :
              slices[j][1] = (IF j = 1 THEN 0 ELSE slices[j - 1][2])
        /\ Len(c_text) > 0 => slices[Len(slices)][2] = Len(c_text)
        /\ \A i \in 0..(Len(c_text) - 1) :
              c_text[i + 1] \notin Whitespace =>
                Cardinality({j \in 1..Len(slices) :
                    slices[j][1] <= i /\ i < slices[j][2]}) = 1

\* C2: a text of n characters without newline, ". " or space is cut exactly
\* every B characters: floor(n/B) chunks of B characters and, if B does not
\* divide n, one more chunk of n mod B characters.
C2_HardCutEveryBudget ==
    (c_pc = "done" /\ NoBoundary(c_text)) =>
        LET n == Len(c_text)
            B == approx_chars
            count == (n + B - 1) \div B
        IN  chunks = [j \in 1..count |-> Slice(c_text, (j - 1) * B, j * B)]

\* C9: every chunk is a non-empty contiguous substring of the text, has no
\* leading or trailing whitespace and is at most approx_chars long.
C9_ChunkShape ==
    \A j \in 1..Len(chunks) :
        LET chunk == chunks[j]
        IN  /\ chunk # << >>
            /\ \E a \in 0..Len(c_text) : \E b \in a..Len(c_text) :
                  Slice(c_text, a, b) = chunk
            /\ chunk[1] \notin Whitespace
            /\ chunk[Len(chunk)] \notin Whitespace
            /\ Len(chunk) <= approx_chars

\* C9 witness: the loop has returned and one slice was a hard cut at the
\* budget in a window without boundary; another one was trimmed.
C9_Witness ==
    /\ c_pc = "done"
    /\ \E j \in 1..Len(slices) :
          /\ slices[j][2] - slices[j][1] = approx_chars
          /\ slices[j][2] < Len(c_text)
          /\ NoBoundary(Slice(c_text, slices[j][1], slices[j][2]))
    /\ \E j \in 1..Len(chunks) : Len(chunks[j]) = approx_chars
    /\ \E j \in 1..Len(slices) :
          Strip(Slice(c_text, slices[j][1], slices[j][2])) #
            Slice(c_text, slices[j][1], slices[j][2])

\* C10: the scan position strictly increases on every iteration of the loop,
\* and never passes len(text) + 1, so the loop ends.
C10_ScanAdvances ==
    [][(c_pc = "loop" /\ start < Len(c_text)) =>
          (start' > start /\ start' <= Len(c_text) + 1)]_vars

\* C10 witness: the loop has ended on an all-whitespace text after several
\* iterations.
C10_Witness ==
    /\ c_pc = "done"
    /\ Len(c_text) >= 3
    /\ \A i \in 1..Len(c_text) : c_text[i] \in Whitespace
    /\ Len(slices) >= 2
    /\ chunks = << >>
\* ------------------------------------------------ generate_summary: claims

\* The chunks that are summarized, by their position in cs.
Summarized(cs) == {j \in 1..Len(cs) : WordCount(cs[j]) >= MinChunkWords}

\* C3: for a text of 2000 characters or more that yields chunks, there is one
\* partial summary per chunk, in chunk order: the chunk itself, without an
\* invocation, if it has fewer than 10 words; what its invocation returned if
\* that returned; the chunk's first 100 characters if that raised.  The result
\* is the only partial summary, or else the partial summaries joined by single
\* spaces and cut to summary_max_length.
C3_PartialPerChunk ==
    (/\ g_pc[1] = "returned"
     /\ Len(g_text[1]) >= DirectTextLen
     /\ g_chunks[1] # << >>) =>
        LET cs    == g_chunks[1]
            parts == summaries[1]
            which == Summarized(cs)
        IN  /\ Len(parts) = Len(cs)
            /\ Len(calls[1]) = Cardinality(which)
            /\ \A j \in 1..Len(cs) :
                 IF j \notin which
                 THEN parts[j] = cs[j]
                 ELSE LET call == calls[1][Cardinality({i \in which : i <= j})]
                      IN  /\ call.input = cs[j]
                          /\ call.max_length = Min(ChunkMaxLength, summary_max_length[1])
                          /\ call.min_length = Min(ChunkMinLength, summary_min_length[1])
                          /\ call.status \in {"ok", "raised"}
                          /\ call.status = "ok" => parts[j] = call.output
                          /\ call.status = "raised" =>
                               parts[j] = Slice(cs[j], 0, ChunkFallbackLen)
            /\ g_result[1] =
                 IF Len(parts) = 1 THEN parts[1]
                 ELSE Slice(Join(parts), 0, summary_max_length[1])

\* C3 witness: a long text has been summarized in three chunks, one passed
\* through, one summarized and one whose invocation raised and whose chunk is
\* longer than 100 characters; the joined partial summaries were cut.
C3_Witness ==
    /\ g_pc[1] = "returned"
    /\ Len(g_text[1]) >= DirectTextLen
    /\ Len(g_chunks[1]) = 3
    /\ Summarized(g_chunks[1]) # {}
    /\ Summarized(g_chunks[1]) # 1..3
    /\ \E j \in 1..Len(calls[1]) : calls[1][j].status = "ok"
    /\ \E j \in 1..Len(calls[1]) :
         calls[1][j].status = "raised" /\ Len(calls[1][j].input) > ChunkFallbackLen
    /\ Len(Join(summaries[1])) > summary_max_length[1]

\* C4: for a text shorter than 2000 characters the summarizer is invoked at
\* most once: never if the text is shorter than 150 characters, and once, on
\* the whole text with the lengths asked for, otherwise.  Without a summarizer
\* output (no invocation, or the invocation raised) the result is the first
\* summary_max_length characters of the text.
C4_AtMostOneCall ==
    Len(g_text[1]) < DirectTextLen =>
        /\ Len(calls[1]) <= 1
        /\ Len(g_text[1]) < ShortTextLen => calls[1] = << >>
        /\ g_pc[1] = "returned" =>
             /\ Len(g_text[1]) >= ShortTextLen =>
                  /\ Len(calls[1]) = 1
                  /\ calls[1][1].input = g_text[1]
                  /\ calls[1][1].max_length = summary_max_length[1]
                  /\ calls[1][1].min_length = summary_min_length[1]
                  /\ calls[1][1].status \in {"ok", "raised"}
                  /\ calls[1][1].status = "ok" => g_result[1] = calls[1][1].output
             /\ (calls[1] = << >> \/ calls[1][1].status = "raised") =>
                  g_result[1] = Slice(g_text[1], 0, summary_max_length[1])

\* C4 witness: the one invocation on a text of 150 to 1999 characters raised,
\* and the text, cut to summary_max_length, was returned.
C4_Witness ==
    /\ g_pc[1] = "returned"
    /\ Len(g_text[1]) >= ShortTextLen
    /\ Len(g_text[1]) < DirectTextLen
    /\ Len(calls[1]) = 1
    /\ calls[1][1].status = "raised"
    /\ Len(g_result[1]) = summary_max_length[1]
    /\ Len(g_result[1]) < Len(g_text[1])

\* ------------------------------------------------- top_k_sentences: claims

\* C6: unless the vectorizer or the scoring raised, top_k_sentences returns
\* exactly min(k, number of sentences) highlights, in an order of
\* non-increasing score.
C6_CountAndOrder ==
    (h_pc = "returned" /\ h_path # "fallback") =>
        /\ Len(h_result) = Min(h_k, Len(sentences))
        /\ \A j \in 1..(Len(h_result) - 1) :
             ScoreLeq(h_result[j + 1].score, h_result[j].score)

\* C7: when the text has more than k sentences and the vectorizer or the
\* scoring raises, top_k_sentences returns the first k sentences in their
\* order, with the indices 0..k-1 and each with the score 0.5.
C7_FallbackFirstK ==
    (h_pc = "returned" /\ h_path = "fallback") =>
        /\ Len(sentences) > h_k
        /\ Len(h_result) = h_k
        /\ \A j \in 1..Len(h_result) :
             /\ h_result[j].index = j - 1
             /\ h_result[j].sentence = sentences[j]
             /\ h_result[j].score = Score(1, 2)

\* C7 witness: scoring raised on a text of more than k sentences, k >= 1.
C7_Witness ==
    /\ h_pc = "returned"
    /\ h_path = "fallback"
    /\ h_k >= 1
    /\ Len(sentences) > h_k
    /\ Len(h_result) = h_k

\* ---------------------------------------------- summarize_document: claims

\* A request that passes validation: it has a file part, the file has a name
\* that ends in .pdf or .txt in any case, its text can be extracted and is
\* not blank.
PassesValidation(req) ==
    /\ req.has_file
    /\ Len(req.filename) >= 4
    /\ Lower(SubSeq(req.filename, Len(req.filename) - 3, Len(req.filename)))
          \in {<<".", "p", "d", "f">>, <<".", "t", "x", "t">>}
    /\ req.readable
    /\ \E i \in 1..Len(req.text) : req.text[i] \notin Whitespace

\* C5: at most one invocation of the summarizer is in progress at any time.
C5_SummarizerSerialized ==
    Cardinality({r \in Requests : InSummarizer(r)}) <= 1

\* C8: a request that passes validation is answered with status 200 and the
\* summary generate_summary returned, whatever invocations of the summarizer
\* raised and whether or not the highlights could be computed.
C8_ValidRequestSucceeds ==
    \A r \in Requests :
        PassesValidation(a_request[r]) =>
            /\ a_pc[r] # "off"
            /\ a_pc[r] = "responded" =>
                 /\ a_response[r].status = 200
                 /\ a_response[r].error = ""
                 /\ g_pc[r] = "returned"
                 /\ a_response[r].summary = g_result[r]
                 /\ a_response[r].summary_length = Len(g_result[r])
                 /\ a_response[r].highlight_count = Len(a_response[r].highlights)

\* C8 witness: a valid request was answered with status 200 although its
\* invocation of the summarizer raised and the highlights fell back to the
\* first sentences.
C8_Witness ==
    \E r \in Requests :
        /\ a_pc[r] = "responded"
        /\ PassesValidation(a_request[r])
        /\ a_response[r].status = 200
        /\ calls[r] # << >>
        /\ \A j \in 1..Len(calls[r]) : calls[r][j].status = "raised"
        /\ a_response[r].highlights # << >>
        /\ a_response[r].highlights[1].score = Score(1, 2)

====
